---- MODULE Spec2Model ----
(***************************************************************************)
(* A model of src/src/docker_build.sh (the image-customization script) and *)
(* of the code cells of src/walkthrough.ipynb (the orchestration notebook).*)
(*                                                                         *)
(* Strings are sequences of one-character strings, so that the positional  *)
(* substring operations and the regular expressions of the script act on   *)
(* characters as they do in bash.  The external tools (aws, docker, S3,    *)
(* SageMaker) are the environment: every call ends with an exit status or  *)
(* an exception that the environment chooses, within what the tool can do. *)
(***************************************************************************)
EXTENDS Integers, Sequences, FiniteSets, TLC

(***************************************************************************)
(* Bounds of the model.                                                    *)
(***************************************************************************)
\* longest arbitrary image reference given to the script as $1
MaxLen == 5
\* number of consecutive runs of the script in SpecScript
MaxRuns == 2
\* widest row of the transform output that the environment produces
MaxCols == 11

(***************************************************************************)
(* String constants of the program.                                        *)
(***************************************************************************)
namespace == <<"c","u","s","t","o","m","_","i","m","a","g","e","s">>
DkrEcr == <<".","d","k","r",".","e","c","r",".">>
AmazonawsCom == <<".","a","m","a","z","o","n","a","w","s",".","c","o","m">>
DotAmazon == <<".","a","m","a","z","o","n">>
SagemakerXgboost == <<"s","a","g","e","m","a","k","e","r","-","x","g","b","o","o","s","t">>
NotebookVersion == <<"1",".","2","-","2">>
AbaloneDot == <<"a","b","a","l","o","n","e",".">>
Train == <<"t","r","a","i","n">>
Test == <<"t","e","s","t">>
Validation == <<"v","a","l","i","d","a","t","i","o","n">>
DataPrefix == <<"d","a","t","a","s","e","t","s","/","t","a","b","u","l","a","r","/","u","c","i","_","a","b","a","l","o","n","e">>
OutputPrefix == <<"s","a","g","e","m","a","k","e","r","/","D","E","M","O","-","x","g","b","o","o","s","t","-","a","b","a","l","o","n","e","-","d","e","f","a","u","l","t">>

(***************************************************************************)
(* Values the environment supplies: accounts, regions, image references.   *)
(***************************************************************************)
PublicAccount == <<"2","4","6","6","1","8","7","4","3","2","4","9">>
OwnAccount == <<"1","1","1","1","2","2","2","2","3","3","3","3">>
RegionA == <<"u","s","-","w","e","s","t","-","2">>
RegionB == <<"e","u","-","w","e","s","t","-","1">>
Empty == << >>

Slash == <<"/">>
Colon == <<":">>
Dash == <<"-">>

\* <account>.dkr.ecr.<region>.amazonaws.com
RegistryHost(acct, reg) == acct \o DkrEcr \o reg \o AmazonawsCom

\* <account>.dkr.ecr.<region>.amazonaws.com/<name>:<version>
EcrRef(acct, reg, name, ver) == RegistryHost(acct, reg) \o Slash \o name \o Colon \o ver

XgboostName == <<"x","g","b","o","o","s","t">>
OldVersion == <<"1">>
\* sagemaker-xgboost-1.2 : a repository whose name ends with a version prefix
SagemakerXgboost12 == SagemakerXgboost \o <<"-","1",".","2">>
TagTwo == <<"2">>

Accounts == {PublicAccount, OwnAccount}
Names == {SagemakerXgboost, XgboostName, SagemakerXgboost12}
Versions == {NotebookVersion, OldVersion, TagTwo}

\* References of the documented ECR shape.
EcrRefs ==
    { EcrRef(PublicAccount, RegionA, SagemakerXgboost, NotebookVersion),
      EcrRef(PublicAccount, RegionB, SagemakerXgboost, NotebookVersion),
      EcrRef(OwnAccount, RegionA, XgboostName, NotebookVersion),
      EcrRef(PublicAccount, RegionA, SagemakerXgboost, OldVersion),
      EcrRef(PublicAccount, RegionA, SagemakerXgboost12, TagTwo) }

Alphabet == {"/", ":", "a"}

RECURSIVE StringsUpTo(_)
StringsUpTo(n) ==
    IF n = 0 THEN {Empty}
    ELSE LET shorter == StringsUpTo(n - 1)
         IN  shorter \cup {Append(s, c) : s \in {t \in shorter : Len(t) = n - 1}, c \in Alphabet}

\* Everything the script may be given as $1 (the empty string: no argument).
Args == StringsUpTo(MaxLen) \cup EcrRefs

(***************************************************************************)
(* String operations of bash, as the script uses them.                     *)
(***************************************************************************)
Max(S) == CHOOSE x \in S : \A y \in S : y <= x
Min(S) == CHOOSE x \in S : \A y \in S : x <= y

\* ${s:off:len}
Substr(s, off, len) ==
    IF off >= Len(s) THEN Empty
    ELSE SubSeq(s, off + 1, IF off + len > Len(s) THEN Len(s) ELSE off + len)

\* ${s:off}
SubstrFrom(s, off) == Substr(s, off, Len(s))

\* the places where pat occurs in s
Occurrences(s, pat) ==
    {k \in 1..(Len(s) - Len(pat) + 1) : SubSeq(s, k, k + Len(pat) - 1) = pat}

\* expr "$s" : '\(.*\)\.amazon' : anchored at the start, the group greedy;
\* prints the group, or nothing when there is no match.
ExprRegion(s) ==
    IF Occurrences(s, DotAmazon) = {} THEN Empty
    ELSE SubSeq(s, 1, Max(Occurrences(s, DotAmazon)) - 1)

\* Every way to write s as  a "/" g1 ":" g2 : the places of the "/" and the ":".
Splits(s) ==
    {ij \in (1..Len(s)) \X (1..Len(s)) :
        /\ ij[1] < ij[2]
        /\ s[ij[1]] = "/"
        /\ s[ij[2]] = ":"}

\* A variant that takes the first "/" and the first ":" after it (lazy .*).
LazySplit(s) ==
    LET i == Min({ij[1] : ij \in Splits(s)})
        j == Min({ij[2] : ij \in {x \in Splits(s) : x[1] = i}})
    IN  <<i, j>>

\* [[ $s =~ .*/(.*):(.*) ]] : the leading .* takes the longest prefix that
\* still lets the rest match, then the first group takes the longest.
GreedySplit(s) ==
    LET i == Max({ij[1] : ij \in Splits(s)})
        j == Max({ij[2] : ij \in {x \in Splits(s) : x[1] = i}})
    IN  <<i, j>>

\* A variant in which a failed match leaves the whole string in both groups.
RegexMatchWhole(s) ==
    IF Splits(s) = {} THEN [rc |-> 1, g1 |-> s, g2 |-> s]
    ELSE LET ij == GreedySplit(s)
         IN  [rc |-> 0,
              g1 |-> SubSeq(s, ij[1] + 1, ij[2] - 1),
              g2 |-> SubSeq(s, ij[2] + 1, Len(s))]

\* The exit status of [[ =~ ]] and BASH_REMATCH[1], BASH_REMATCH[2]; the
\* array is empty after a failed match.
RegexMatch(s) ==
    IF Splits(s) = {} THEN [rc |-> 1, g1 |-> Empty, g2 |-> Empty]
    ELSE LET ij == GreedySplit(s)
         IN  [rc |-> 0,
              g1 |-> SubSeq(s, ij[1] + 1, ij[2] - 1),
              g2 |-> SubSeq(s, ij[2] + 1, Len(s))]

\* "${namespace}/${algorithm}-${version}"
RepoName(alg, ver) == namespace \o Slash \o alg \o Dash \o ver

\* A variant that joins algorithm and version with "_".
FullNameUnderscore(acct, reg, alg, ver) ==
    RegistryHost(acct, reg) \o Slash \o namespace \o Slash \o alg \o <<"_">> \o ver

\* "${account}.dkr.ecr.${region}.amazonaws.com/${namespace}/${algorithm}-${version}"
FullName(acct, reg, alg, ver) == RegistryHost(acct, reg) \o Slash \o RepoName(alg, ver)


(***************************************************************************)
(* State.                                                                  *)
(*   proc[p]  one invocation of docker_build.sh: its position, its shell   *)
(*            variables (named as in the script), $? in status, the        *)
(*            commands it has invoked in log, and three records of its     *)
(*            history: failures (which commands exited non-zero), stale    *)
(*            (one of its own taggings failed), checkrc (what              *)
(*            describe-repositories returned) and interfered (another      *)
(*            invocation moved a local tag this one relies on).            *)
(*   tags     the local image store's fixed tags base_image, custom_image. *)
(*   pulled   the references present in the local image store.             *)
(*   named    the local store's tags under full names.                     *)
(*   repos    the repositories of the destination registry.                *)
(*   pushed   the images in the destination registry, by full name.        *)
(*   fs       the content of src/base_image_uri.txt, or NoFile.            *)
(*   env      the region and account the aws CLI resolves, and those the   *)
(*            notebook's boto3 session resolves.                           *)
(*   runs     how many invocations have been started from the shell.       *)
(*   nb       the notebook's kernel: its position and its variables.       *)
(***************************************************************************)
VARIABLES proc, tags, pulled, named, repos, pushed, fs, env, runs, nb

vars == <<proc, tags, pulled, named, repos, pushed, fs, env, runs, nb>>

Procs == {1, 2}

NoFile == <<"<absent>">>
NoImage == [from |-> Empty, layer |-> "none"]
BaseOf(ref) == [from |-> ref, layer |-> "base"]
NoRequest == [region |-> Empty, registry_ids |-> Empty, made |-> FALSE]

\* The regions in which the registry service has an endpoint.
KnownRegions == {RegionA, RegionB}

\* An invocation that has not been started.
IdleProc ==
    [pc |-> "idle", arg |-> Empty, base_image |-> Empty, region |-> Empty,
     account |-> Empty, base_account |-> Empty, base_region |-> Empty,
     algorithm |-> Empty, version |-> Empty, status |-> 0,
     token_request |-> NoRequest, token |-> FALSE, login_host |-> Empty,
     pull_ref |-> Empty, xgboost_path |-> FALSE, fullname |-> Empty,
     repo_checked |-> Empty, log |-> << >>, failures |-> "none", checkrc |-> -1,
     interfered |-> FALSE, stale |-> FALSE, pushed_image |-> NoImage]

\* ./docker_build.sh "$1" has been started.
StartedProc(a) == [IdleProc EXCEPT !.pc = "start", !.arg = a]

\* The exit status of a command that succeeded (ok) or failed.
Rc(ok) == IF ok THEN 0 ELSE 1

\* A variant in which the shell stops at the first command that fails (set -e).
AfterErrexit(ok, next) == IF ok THEN next ELSE "done"

\* Where the script goes after a command: to the next line, whatever the
\* command's exit status was (no set -e, no trap, no || exit).
After(ok, next) == next

\* Which of the commands invoked so far have failed: "none", "all" or "some".
Failures(before, first, ok) ==
    IF first THEN (IF ok THEN "none" ELSE "all")
    ELSE IF ok THEN (IF before = "none" THEN "none" ELSE "some")
    ELSE (IF before = "all" THEN "all" ELSE "some")

\* The commands that set a local tag the rest of the run relies on.
TagCommands == {"tag", "build", "tag-custom"}

\* The record of proc[p] after it invoked cmd, which ended ok or not, leaving st in $?.
Ran(p, cmd, ok, st, next) ==
    [proc[p] EXCEPT !.pc = After(ok, next), !.status = st, !.log = Append(@, cmd),
                    !.failures = Failures(@, proc[p].log = << >>, ok),
                    !.stale = @ \/ (~ok /\ cmd \in TagCommands)]

\* lines 2-9: the base image is $1, or the content of base_image_uri.txt
\* (nothing when cat fails) when $1 is empty.
ReadBaseImage(p) ==
    /\ proc[p].pc = "start"
    /\ proc' = [proc EXCEPT ![p] =
                  [@ EXCEPT !.pc = "configure",
                            !.base_image = IF proc[p].arg = Empty
                                           THEN (IF fs = NoFile THEN Empty ELSE fs)
                                           ELSE proc[p].arg]]
    /\ UNCHANGED <<tags, pulled, named, repos, pushed, fs, env, runs, nb>>

\* lines 10-12
Configure(p) ==
    /\ proc[p].pc = "configure"
    /\ proc' = [proc EXCEPT ![p] =
                  [@ EXCEPT !.pc = "parse", !.region = env.region, !.account = env.account]]
    /\ UNCHANGED <<tags, pulled, named, repos, pushed, fs, env, runs, nb>>

\* lines 13-20
Parse(p) ==
    /\ proc[p].pc = "parse"
    /\ LET b == proc[p].base_image
           m == RegexMatch(b)
       IN  proc' = [proc EXCEPT ![p] =
                      [@ EXCEPT !.pc = "token",
                                !.base_account = Substr(b, 0, 12),
                                !.base_region = ExprRegion(SubstrFrom(b, 21)),
                                !.status = 0,
                                !.algorithm = m.g1,
                                !.version = m.g2]]
    /\ UNCHANGED <<tags, pulled, named, repos, pushed, fs, env, runs, nb>>

\* line 22: the arguments of aws ecr get-authorization-token
TokenRequest(pr) ==
    [region |-> pr.base_account, registry_ids |-> pr.base_account, made |-> TRUE]

\* line 23: the registry docker login is given
LoginHost(pr) == RegistryHost(pr.base_account, pr.base_region)

\* line 22: the token is obtained only from a region that has an endpoint; the
\* status is that of base64 -d, which decodes an empty answer too.
GetToken(p) ==
    /\ proc[p].pc = "token"
    /\ \E ok \in BOOLEAN :
         /\ ok => TokenRequest(proc[p]).region \in KnownRegions
         /\ proc' = [proc EXCEPT ![p] =
                       [Ran(p, "get-authorization-token", ok, 0, "login")
                          EXCEPT !.token_request = TokenRequest(proc[p]), !.token = ok]]
    /\ UNCHANGED <<tags, pulled, named, repos, pushed, fs, env, runs, nb>>

\* line 23: docker login needs the password of the token
LoginSource(p) ==
    /\ proc[p].pc = "login"
    /\ \E ok \in BOOLEAN :
         /\ ok => proc[p].token
         /\ proc' = [proc EXCEPT ![p] =
                       [Ran(p, "login", ok, Rc(ok), "pull")
                          EXCEPT !.login_host = LoginHost(proc[p])]]
    /\ UNCHANGED <<tags, pulled, named, repos, pushed, fs, env, runs, nb>>

\* line 25
Pull(p) ==
    /\ proc[p].pc = "pull"
    /\ \E ok \in BOOLEAN :
         /\ ok => proc[p].base_image # Empty
         /\ proc' = [proc EXCEPT ![p] =
                       [Ran(p, "pull", ok, Rc(ok), "tag_base")
                          EXCEPT !.pull_ref = proc[p].base_image]]
         /\ pulled' = IF ok THEN pulled \cup {proc[p].base_image} ELSE pulled
    /\ UNCHANGED <<tags, named, repos, pushed, fs, env, runs, nb>>

\* Whether the invocation q relies on the tag base_image (it has tagged, and has
\* yet to build) or on custom_image (it has built, and has yet to tag and push).
ReliesOnBase(q) == proc[q].pc \in {"find", "build"}
ReliesOnCustom(q) ==
    proc[q].pc \in {"logout", "login_dest", "describe", "check", "create", "name", "tag_custom"}
ReliesOnName(q, n) == proc[q].pc = "push" /\ proc[q].fullname = n

\* proc' when p has run a command (leaving r as its record) that moved the tags
\* the invocations in hit rely on.
Interfering(p, r, hit) ==
    [q \in Procs |-> IF q = p THEN r
                     ELSE IF q \in hit THEN [proc[q] EXCEPT !.interfered = TRUE]
                     ELSE proc[q]]

\* A variant of the tagging that leaves a tag that is already set where it is.
KeepTag(old, new) == IF old = NoImage THEN new ELSE old

\* docker tag, docker build -t: the tag moves to the new image.
MoveTag(old, new) == new

\* line 28: docker tag "${base_image}" base_image
TagBase(p) ==
    /\ proc[p].pc = "tag_base"
    /\ \E ok \in BOOLEAN :
         /\ ok => proc[p].base_image \in pulled
         /\ tags' = IF ok
                    THEN [tags EXCEPT !.base_image = MoveTag(@, BaseOf(proc[p].base_image))]
                    ELSE tags
         /\ proc' = Interfering(p, Ran(p, "tag", ok, Rc(ok), "find"),
                                IF ok THEN {q \in Procs : ReliesOnBase(q)} ELSE {})
    /\ UNCHANGED <<pulled, named, repos, pushed, fs, env, runs, nb>>

\* line 31: docker run -t base_image find ... | tr -d '\r' ; $? is that of tr
FindPath(p) ==
    /\ proc[p].pc = "find"
    /\ \E ok \in BOOLEAN :
         /\ ok => tags.base_image # NoImage
         /\ proc' = [proc EXCEPT ![p] =
                       [Ran(p, "run-find", ok, 0, "build") EXCEPT !.xgboost_path = ok]]
    /\ UNCHANGED <<tags, pulled, named, repos, pushed, fs, env, runs, nb>>

\* The image docker build makes: the image tagged base_image (lines 27-28 tag
\* it "so dockerfile can resolve the base image") with the modules replaced.
Built(base) == [from |-> base.from, layer |-> "custom"]

\* line 33
Build(p) ==
    /\ proc[p].pc = "build"
    /\ \E ok \in BOOLEAN :
         /\ ok => tags.base_image # NoImage
         /\ tags' = IF ok
                    THEN [tags EXCEPT !.custom_image = MoveTag(@, Built(tags.base_image))]
                    ELSE tags
         /\ proc' = Interfering(p, Ran(p, "build", ok, Rc(ok), "logout"),
                                IF ok THEN {q \in Procs : ReliesOnCustom(q)} ELSE {})
    /\ UNCHANGED <<pulled, named, repos, pushed, fs, env, runs, nb>>

\* line 38
Logout(p) ==
    /\ proc[p].pc = "logout"
    /\ \E ok \in BOOLEAN :
         proc' = [proc EXCEPT ![p] = Ran(p, "logout", ok, Rc(ok), "login_dest")]
    /\ UNCHANGED <<tags, pulled, named, repos, pushed, fs, env, runs, nb>>

\* line 39
LoginDest(p) ==
    /\ proc[p].pc = "login_dest"
    /\ \E ok \in BOOLEAN :
         proc' = [proc EXCEPT ![p] = Ran(p, "login-dest", ok, Rc(ok), "describe")]
    /\ UNCHANGED <<tags, pulled, named, repos, pushed, fs, env, runs, nb>>

\* line 42: describe-repositories exits zero only for a repository that exists;
\* it exits non-zero for one that does not, and whenever the call itself fails.
Describe(p) ==
    /\ proc[p].pc = "describe"
    /\ \E ok \in BOOLEAN :
         /\ ok => RepoName(proc[p].algorithm, proc[p].version) \in repos
         /\ proc' = [proc EXCEPT ![p] =
                       [Ran(p, "describe-repositories", ok, Rc(ok), "check")
                          EXCEPT !.checkrc = Rc(ok),
                                 !.repo_checked = RepoName(proc[p].algorithm, proc[p].version)]]
    /\ UNCHANGED <<tags, pulled, named, repos, pushed, fs, env, runs, nb>>

\* A variant of the test that creates when the check succeeded.
CreateIfFound(st) == st = 0

\* line 44: [ $? -ne 0 ]
CheckFailed(st) == st # 0

\* lines 44-47: the branch on the status of describe-repositories
Check(p) ==
    /\ proc[p].pc = "check"
    /\ proc' = [proc EXCEPT ![p] =
                  [@ EXCEPT !.pc = IF CheckFailed(proc[p].status) THEN "create" ELSE "name"]]
    /\ UNCHANGED <<tags, pulled, named, repos, pushed, fs, env, runs, nb>>

\* line 46: create-repository fails for a repository that exists
Create(p) ==
    /\ proc[p].pc = "create"
    /\ \E ok \in BOOLEAN :
         /\ ok => RepoName(proc[p].algorithm, proc[p].version) \notin repos
         /\ repos' = IF ok THEN repos \cup {RepoName(proc[p].algorithm, proc[p].version)}
                     ELSE repos
         /\ proc' = [proc EXCEPT ![p] = Ran(p, "create-repository", ok, Rc(ok), "name")]
    /\ UNCHANGED <<tags, pulled, named, pushed, fs, env, runs, nb>>

\* lines 49-50
Name(p) ==
    /\ proc[p].pc = "name"
    /\ proc' = [proc EXCEPT ![p] =
                  [@ EXCEPT !.pc = "tag_custom", !.status = 0,
                            !.fullname = FullName(proc[p].account, proc[p].region,
                                                  proc[p].algorithm, proc[p].version)]]
    /\ UNCHANGED <<tags, pulled, named, repos, pushed, fs, env, runs, nb>>

\* The local tags with the name n on the image img.
Retag(old, n, img) == {t \in old : t[1] # n} \cup {<<n, img>>}

\* line 51: docker tag custom_image $fullname
TagCustom(p) ==
    /\ proc[p].pc = "tag_custom"
    /\ \E ok \in BOOLEAN :
         /\ ok => tags.custom_image # NoImage /\ proc[p].fullname # Empty
         /\ named' = IF ok THEN Retag(named, proc[p].fullname, tags.custom_image) ELSE named
         /\ proc' = Interfering(p, Ran(p, "tag-custom", ok, Rc(ok), "push"),
                                IF ok THEN {q \in Procs : ReliesOnName(q, proc[p].fullname)}
                                ELSE {})
    /\ UNCHANGED <<tags, pulled, repos, pushed, fs, env, runs, nb>>

\* line 52: docker push $fullname sends the image the local store has under
\* that name to its repository, which must exist.
Push(p) ==
    /\ proc[p].pc = "push"
    /\ \E ok \in BOOLEAN :
         /\ ok => /\ \E t \in named : t[1] = proc[p].fullname
                  /\ RepoName(proc[p].algorithm, proc[p].version) \in repos
         /\ LET img == IF ok THEN (CHOOSE t \in named : t[1] = proc[p].fullname)[2]
                       ELSE NoImage
            IN  /\ pushed' = IF ok THEN Retag(pushed, proc[p].fullname, img) ELSE pushed
                /\ proc' = [proc EXCEPT ![p] =
                              [Ran(p, "push", ok, Rc(ok), "done") EXCEPT !.pushed_image = img]]
    /\ UNCHANGED <<tags, pulled, named, repos, fs, env, runs, nb>>

\* One step of the invocation p.
ScriptStep(p) ==
    \/ ReadBaseImage(p)
    \/ Configure(p)
    \/ Parse(p)
    \/ GetToken(p)
    \/ LoginSource(p)
    \/ Pull(p)
    \/ TagBase(p)
    \/ FindPath(p)
    \/ Build(p)
    \/ Logout(p)
    \/ LoginDest(p)
    \/ Describe(p)
    \/ Check(p)
    \/ Create(p)
    \/ Name(p)
    \/ TagCustom(p)
    \/ Push(p)

(***************************************************************************)
(* The notebook's kernel before its first cell.                            *)
(***************************************************************************)
NoNotebook == [pc |-> "off"]

(***************************************************************************)
(* SpecScript: the script run from a shell with one argument (or none),    *)
(* then run again with the same argument.                                  *)
(***************************************************************************)
InitScript ==
    /\ \E a \in Args : proc = [p \in Procs |-> IF p = 1 THEN StartedProc(a) ELSE IdleProc]
    /\ tags = [base_image |-> NoImage, custom_image |-> NoImage]
    /\ pulled = {}
    /\ named = {}
    /\ repos = {}
    /\ pushed = {}
    /\ fs \in {NoFile, EcrRef(PublicAccount, RegionA, SagemakerXgboost, NotebookVersion)}
    /\ env = [region |-> RegionA, account |-> OwnAccount,
              nb_region |-> RegionA, nb_account |-> OwnAccount]
    /\ runs = 1
    /\ nb = NoNotebook

\* The script is started again, with the same argument, after it has ended.
RunAgain ==
    /\ proc[1].pc = "done"
    /\ runs < MaxRuns
    /\ runs' = runs + 1
    /\ proc' = [proc EXCEPT ![1] = StartedProc(proc[1].arg)]
    /\ UNCHANGED <<tags, pulled, named, repos, pushed, fs, env, nb>>

NextScript == ScriptStep(1) \/ RunAgain

SpecScript == InitScript /\ [][NextScript]_vars


(***************************************************************************)
(* SpecConc: two invocations of the script, given different base images,   *)
(* run at the same time against one local image store and one registry.    *)
(***************************************************************************)
ConcRefs ==
    { EcrRef(PublicAccount, RegionA, SagemakerXgboost, NotebookVersion),
      EcrRef(PublicAccount, RegionB, SagemakerXgboost, NotebookVersion),
      EcrRef(OwnAccount, RegionA, XgboostName, NotebookVersion) }

InitConc ==
    /\ \E a \in ConcRefs, b \in ConcRefs :
         /\ a # b
         /\ proc = [p \in Procs |-> IF p = 1 THEN StartedProc(a) ELSE StartedProc(b)]
    /\ tags = [base_image |-> NoImage, custom_image |-> NoImage]
    /\ pulled = {}
    /\ named = {}
    /\ repos = {}
    /\ pushed = {}
    /\ fs = NoFile
    /\ env = [region |-> RegionA, account |-> OwnAccount,
              nb_region |-> RegionA, nb_account |-> OwnAccount]
    /\ runs = 2
    /\ nb = NoNotebook

NextConc == \E p \in Procs : ScriptStep(p)

SpecConc == InitConc /\ [][NextConc]_vars

(***************************************************************************)
(* The notebook.  Its cells run top to bottom; a call that raises ends the *)
(* run (pc "aborted").  nb.steps lists the orchestration steps completed.  *)
(***************************************************************************)
\* "{0}/{1}/abalone.{0}": a variant with the wrong field in the file name.
KeyTemplateSwapped ==
    << [field |-> 0, text |-> Empty], [field |-> -1, text |-> Slash],
       [field |-> 1, text |-> Empty], [field |-> -1, text |-> Slash \o AbaloneDot],
       [field |-> 0, text |-> Empty] >>

\* "{0}/{1}/abalone.{1}" : literal text, and replacement fields by position
KeyTemplate ==
    << [field |-> 0, text |-> Empty], [field |-> -1, text |-> Slash],
       [field |-> 1, text |-> Empty], [field |-> -1, text |-> Slash \o AbaloneDot],
       [field |-> 1, text |-> Empty] >>

\* "abalone.{}"
FilenameTemplate == << [field |-> -1, text |-> AbaloneDot], [field |-> 0, text |-> Empty] >>

\* "{}/{}/" : the key of "s3://{}/{}/{}/" after the bucket
ChannelTemplate ==
    << [field |-> 0, text |-> Empty], [field |-> -1, text |-> Slash],
       [field |-> 1, text |-> Empty], [field |-> -1, text |-> Slash] >>

\* str.format: each replacement field gives way to its argument, as it is.
RECURSIVE Format(_, _)
Format(tpl, args) ==
    IF tpl = << >> THEN Empty
    ELSE (IF Head(tpl).field < 0 THEN Head(tpl).text ELSE args[Head(tpl).field + 1])
         \o Format(Tail(tpl), args)

\* ["train", "test", "validation"]
Categories == <<Train, Test, Validation>>

\* The prefixes the notebook may be set up with: those of the source, and others.
DataPrefixes == {DataPrefix, <<"p">>, <<"{", "1", "}">>}
OutputPrefixes == {OutputPrefix, Empty}

data_bucket == "sagemaker-sample-files"
output_bucket == "default-bucket"

hyperparameters ==
    [max_depth |-> "5", eta |-> "0.2", gamma |-> "4", min_child_weight |-> "6",
     subsample |-> "0.7", objective |-> "reg:squarederror", num_round |-> "50"]

NoFit == [called |-> FALSE]
NoFrame == [read |-> FALSE]

\* names=[...] of read_csv
ColumnNames ==
    <<"prediction", "base_values", "shap 1", "shap 2", "shap 3", "shap 4",
      "shap 5", "shap 6", "shap 7", "shap 8">>

\* usecols=[0,1,2,...,9]: a variant that skips no column.
UsecolsDense == {c \in 0..9 : TRUE}

\* usecols=[0,1,3,4,5,6,7,8,9,10]
Usecols == {0, 1} \cup 3..10

\* the k-th smallest element of a set of numbers
RECURSIVE Nth(_, _)
Nth(S, k) == IF k = 1 THEN Min(S) ELSE Nth(S \ {Min(S)}, k - 1)

\* the value of a column the row does not have
NaN == -1

\* pd.read_csv(header=None, names=..., usecols=...) of one row, as the set of
\* its possible outcomes: the names go, in order, to the columns of usecols in
\* increasing order; when the row lacks a column of usecols, the library
\* raises an error or fills the column in, depending on its version.
ReadCsv(row, names, usecols) ==
    LET frame == [read |-> TRUE,
                  cols |-> [k \in 1..Len(names) |->
                              [name |-> names[k],
                               value |-> IF Nth(usecols, k) < Len(row)
                                         THEN row[Nth(usecols, k) + 1] ELSE NaN]]]
    IN  IF \E c \in usecols : c >= Len(row) THEN {NoFrame, frame} ELSE {frame}

\* The rows the container may put out: up to MaxCols values, one of them 1.
OutRows ==
    {[i \in 1..w |-> IF i = h THEN 1 ELSE 0] : w \in 10..MaxCols, h \in 0..MaxCols}

\* The kernel before the first cell runs.
FreshNotebook ==
    [pc |-> "setup", region |-> Empty, account |-> Empty, data_prefix |-> Empty,
     output_prefix |-> Empty, i |-> 1, data_key |-> Empty, output_key |-> Empty,
     data_filename |-> Empty, downloads |-> {}, uploads |-> {}, version |-> Empty,
     xgboost_container |-> Empty, custom_container |-> Empty, fit |-> NoFit,
     transform |-> Empty, out |-> << >>, df |-> NoFrame, steps |-> << >>]

ScriptVars == <<proc, tags, pulled, named, repos, pushed>>

\* lines 74-88
SetUp ==
    /\ nb.pc = "setup"
    /\ \E dp \in DataPrefixes, op \in OutputPrefixes :
         nb' = [nb EXCEPT !.pc = "download", !.region = env.nb_region,
                          !.account = env.nb_account, !.data_prefix = dp,
                          !.output_prefix = op]
    /\ UNCHANGED <<ScriptVars, fs, env, runs>>

\* lines 108-113: the keys and the file name of one category, and its download
Download ==
    /\ nb.pc = "download"
    /\ LET c == Categories[nb.i]
           dk == Format(KeyTemplate, <<nb.data_prefix, c>>)
           ok == Format(KeyTemplate, <<nb.output_prefix, c>>)
           fn == Format(FilenameTemplate, <<c>>)
       IN  \E raised \in BOOLEAN :
             nb' = [nb EXCEPT !.pc = IF raised THEN "aborted" ELSE "upload",
                              !.data_key = dk, !.output_key = ok, !.data_filename = fn,
                              !.downloads = IF raised THEN @
                                            ELSE @ \cup {<<data_bucket, dk, fn>>}]
    /\ UNCHANGED <<ScriptVars, fs, env, runs>>

\* line 114, and line 108: the next category, or the end of the loop
Upload ==
    /\ nb.pc = "upload"
    /\ \E raised \in BOOLEAN :
         nb' = IF raised THEN [nb EXCEPT !.pc = "aborted"]
               ELSE [nb EXCEPT !.pc = IF nb.i = Len(Categories) THEN "retrieve" ELSE "download",
                               !.i = IF nb.i = Len(Categories) THEN @ ELSE @ + 1,
                               !.uploads = @ \cup {<<nb.data_filename, output_bucket, nb.output_key>>},
                               !.steps = Append(@, <<"copy", Categories[nb.i]>>)]
    /\ UNCHANGED <<ScriptVars, fs, env, runs>>

\* lines 137-141: the SDK resolves the URI of the base image
Retrieve ==
    /\ nb.pc = "retrieve"
    /\ \/ \E uri \in EcrRefs :
            nb' = [nb EXCEPT !.pc = "write", !.version = NotebookVersion,
                             !.xgboost_container = uri]
       \/ nb' = [nb EXCEPT !.pc = "aborted", !.version = NotebookVersion]
    /\ UNCHANGED <<ScriptVars, fs, env, runs>>

\* lines 143-144
WriteHandoff ==
    /\ nb.pc = "write"
    /\ \/ /\ fs' = nb.xgboost_container
          /\ nb' = [nb EXCEPT !.pc = "invoke", !.steps = Append(@, <<"write-handoff">>)]
       \/ /\ fs' = fs
          /\ nb' = [nb EXCEPT !.pc = "aborted"]
    /\ UNCHANGED <<ScriptVars, env, runs>>

\* f"{account}.dkr.ecr.{region}.amazonaws.com/custom_images/sagemaker-xgboost-{version}"
CustomContainer(acct, reg, ver) ==
    acct \o DkrEcr \o reg \o AmazonawsCom \o Slash \o namespace \o Slash
         \o SagemakerXgboost \o Dash \o ver

\* lines 145-147: !cd src && ./docker_build.sh starts the script with no argument
InvokeScript ==
    /\ nb.pc = "invoke"
    /\ proc[1].pc = "idle"
    /\ proc' = [proc EXCEPT ![1] = StartedProc(Empty)]
    /\ nb' = [nb EXCEPT !.pc = "wait",
                        !.custom_container = CustomContainer(nb.account, nb.region, nb.version)]
    /\ UNCHANGED <<tags, pulled, named, repos, pushed, fs, env, runs>>

\* A variant in which the cell does not wait for the script.
ScriptStartedOnly(p) == proc[p].pc # "idle"

\* The cell of line 147 ends when the script has ended.
ScriptReturned(p) == proc[p].pc = "done"

\* line 147 returns; no exit status of the script is looked at
ScriptEnds ==
    /\ nb.pc = "wait"
    /\ ScriptReturned(1)
    /\ nb' = [nb EXCEPT !.pc = "fit", !.steps = Append(@, <<"invoke-script">>)]
    /\ UNCHANGED <<ScriptVars, fs, env, runs>>

\* lines 168-193
Fit ==
    /\ nb.pc = "fit"
    /\ LET request ==
              [called |-> TRUE, image_uri |-> nb.custom_container,
               hyperparameters |-> hyperparameters,
               channels |->
                  [train |-> <<output_bucket, Format(ChannelTemplate, <<nb.output_prefix, Train>>)>>,
                   validation |-> <<output_bucket, Format(ChannelTemplate, <<nb.output_prefix, Validation>>)>>]]
       IN  \E raised \in BOOLEAN :
             nb' = [nb EXCEPT !.pc = IF raised THEN "aborted" ELSE "transform",
                              !.fit = request,
                              !.steps = IF raised THEN @ ELSE Append(@, <<"fit">>)]
    /\ UNCHANGED <<ScriptVars, fs, env, runs>>

\* lines 212-215: the transform of <output_prefix>/test/abalone.test writes a row
Transform ==
    /\ nb.pc = "transform"
    /\ \/ \E row \in OutRows :
            nb' = [nb EXCEPT !.pc = "read", !.out = row,
                             !.transform = nb.output_prefix \o Slash \o Test \o Slash \o AbaloneDot \o Test,
                             !.steps = Append(@, <<"transform">>)]
       \/ nb' = [nb EXCEPT !.pc = "aborted"]
    /\ UNCHANGED <<ScriptVars, fs, env, runs>>

\* lines 235-239
ReadOutput ==
    /\ nb.pc = "read"
    /\ \E frame \in ReadCsv(nb.out, ColumnNames, Usecols) :
         nb' = IF frame.read
               THEN [nb EXCEPT !.pc = "end", !.df = frame, !.steps = Append(@, <<"read">>)]
               ELSE [nb EXCEPT !.pc = "aborted"]
    /\ UNCHANGED <<ScriptVars, fs, env, runs>>

InitNotebook ==
    /\ proc = [p \in Procs |-> IdleProc]
    /\ tags = [base_image |-> NoImage, custom_image |-> NoImage]
    /\ pulled = {}
    /\ named = {}
    /\ repos = {}
    /\ pushed = {}
    /\ fs = NoFile
    /\ \E r \in KnownRegions, nr \in KnownRegions, na \in Accounts :
         env = [region |-> r, account |-> OwnAccount, nb_region |-> nr, nb_account |-> na]
    /\ runs = 1
    /\ nb = FreshNotebook

NextNotebook ==
    \/ SetUp
    \/ Download
    \/ Upload
    \/ Retrieve
    \/ WriteHandoff
    \/ InvokeScript
    \/ (nb.pc = "wait" /\ ScriptStep(1) /\ UNCHANGED nb)
    \/ ScriptEnds
    \/ Fit
    \/ Transform
    \/ ReadOutput

SpecNotebook == InitNotebook /\ [][NextNotebook]_vars

(***************************************************************************)
(* Properties of the script.                                               *)
(***************************************************************************)
Has(seq, x) == \E i \in 1..Len(seq) : seq[i] = x

BeforeParse == {"idle", "start", "configure", "parse"}
AfterCheck == {"create", "name", "tag_custom", "push", "done"}
AfterName == {"tag_custom", "push", "done"}

\* The invocation p has invoked create-repository, or is at line 46 about to.
Creates(p) == proc[p].pc = "create" \/ Has(proc[p].log, "create-repository")

\* C1 as stated: create-repository is invoked only after a describe-repositories
\* that exited non-zero, and consequently never for a repository that an
\* earlier run created and that still exists.
C1_NoDuplicateCreation ==
    \A p \in Procs :
        proc[p].pc = "create" =>
            /\ proc[p].checkrc # 0
            /\ RepoName(proc[p].algorithm, proc[p].version) \notin repos

\* C1 as amended: create-repository is invoked exactly when the preceding
\* describe-repositories exited non-zero; a run whose describe-repositories
\* exits zero, which it does only for a repository that exists, invokes no
\* create-repository.
C1_CreateIffCheckFails ==
    \A p \in Procs :
        /\ Creates(p) => proc[p].checkrc = 1
        /\ proc[p].pc \in AfterCheck => (Creates(p) <=> proc[p].checkrc # 0)
        /\ (proc[p].pc \in AfterCheck /\ proc[p].checkrc = 0) =>
              /\ ~Creates(p)
              /\ proc[p].repo_checked \in repos

\* C1, witness: a second run found the repository the first run created, and
\* ended without invoking create-repository.
C1_Witness ==
    /\ runs = 2
    /\ proc[1].pc = "done"
    /\ proc[1].checkrc = 0
    /\ ~Has(proc[1].log, "create-repository")
    /\ proc[1].repo_checked \in repos

\* The place of the last "/" of s, and of the first ":" after it.
LastSlash(s) == Max({k \in 1..Len(s) : s[k] = "/"})
ColonsAfter(s, i) == {k \in (i + 1)..Len(s) : s[k] = ":"}

\* s is <registry-host>/<name>:<version>: after its last "/" come a name, one
\* ":" and a version, none of them empty.
WellFormedRef(s) ==
    /\ \E k \in 1..Len(s) : s[k] = "/"
    /\ LastSlash(s) > 1
    /\ Cardinality(ColonsAfter(s, LastSlash(s))) = 1
    /\ \A j \in ColonsAfter(s, LastSlash(s)) : j > LastSlash(s) + 1 /\ j < Len(s)

SegmentName(s) == SubSeq(s, LastSlash(s) + 1, Min(ColonsAfter(s, LastSlash(s))) - 1)
SegmentVersion(s) == SubSeq(s, Min(ColonsAfter(s, LastSlash(s))) + 1, Len(s))

\* C2: for a well-formed reference <registry-host>/<name>:<version> the
\* script sets algorithm to the segment between the last "/" and the ":" that
\* follows it, and version to the segment after that ":".
C2_ParsedSegments ==
    \A p \in Procs :
        (proc[p].pc \notin BeforeParse /\ WellFormedRef(proc[p].base_image)) =>
            /\ proc[p].algorithm = SegmentName(proc[p].base_image)
            /\ proc[p].version = SegmentVersion(proc[p].base_image)

\* C2, witness: .../xgboost:1.2-2 has been parsed to "xgboost" and "1.2-2".
C2_Witness ==
    /\ proc[1].pc = "token"
    /\ proc[1].base_image = EcrRef(OwnAccount, RegionA, XgboostName, NotebookVersion)
    /\ proc[1].algorithm = XgboostName
    /\ proc[1].version = NotebookVersion

\* The commands of lines 22-42, in the order of the script.
Commands ==
    <<"get-authorization-token", "login", "pull", "tag", "run-find", "build",
      "logout", "login-dest", "describe-repositories">>
PcOfCommand ==
    <<"token", "login", "pull", "tag_base", "find", "build",
      "logout", "login_dest", "describe">>

\* The commands an invocation has invoked when it is at pc, given what
\* describe-repositories returned: nothing else decides them.
InvokedAt(pc, checkrc) ==
    LET created == IF checkrc # 0 THEN <<"create-repository">> ELSE << >>
    IN  CASE pc \in BeforeParse -> << >>
          [] pc \in {"check", "create"} -> Commands
          [] pc \in {"name", "tag_custom"} -> Commands \o created
          [] pc = "push" -> Commands \o created \o <<"tag-custom">>
          [] pc = "done" -> Commands \o created \o <<"tag-custom", "push">>
          [] OTHER -> SubSeq(Commands, 1,
                             (CHOOSE k \in 1..Len(PcOfCommand) : PcOfCommand[k] = pc) - 1)

\* C6: whatever the commands' exit statuses, the commands run in the fixed
\* order of the script, a failed command stops nothing, every run that ends
\* has attempted docker push, and only the exit status of
\* describe-repositories decides whether a command (create-repository) runs.
C6_NoFailureHandling ==
    \A p \in Procs :
        /\ proc[p].log = InvokedAt(proc[p].pc, proc[p].checkrc)
        /\ proc[p].pc = "done" => proc[p].log[Len(proc[p].log)] = "push"

\* C6, witness: every command of a run failed, and the run went on to end with
\* the attempt to push.
C6_Witness ==
    /\ proc[1].pc = "done"
    /\ proc[1].failures = "all"
    /\ Len(proc[1].log) = Len(Commands) + 3
    /\ proc[1].log[Len(proc[1].log)] = "push"

\* custom_images/-
CustomImagesDash == namespace \o <<"/", "-">>

\* C7: a reference without a "/" followed later by a ":" leaves algorithm and
\* version empty, and the script goes on: it checks the repository
\* custom_images/-, creates it if the check fails, and tags and pushes
\* <account>.dkr.ecr.<region>.amazonaws.com/custom_images/-.
C7_EmptyNamesUsed ==
    \A p \in Procs :
        (proc[p].pc \notin BeforeParse /\ Splits(proc[p].base_image) = {}) =>
            /\ proc[p].algorithm = Empty
            /\ proc[p].version = Empty
            /\ proc[p].pc \in AfterCheck \cup {"check"} => proc[p].repo_checked = CustomImagesDash
            /\ proc[p].pc \in AfterName =>
                  proc[p].fullname =
                      RegistryHost(proc[p].account, proc[p].region) \o Slash \o CustomImagesDash
            /\ proc[p].pc = "done" =>
                  /\ Has(proc[p].log, "describe-repositories")
                  /\ Has(proc[p].log, "tag-custom")
                  /\ Has(proc[p].log, "push")
                  /\ Has(proc[p].log, "create-repository") <=> proc[p].checkrc # 0

\* C7, witness: a run given "a:a/a" has created custom_images/- and has ended
\* after the attempt to push.
C7_Witness ==
    /\ proc[1].pc = "done"
    /\ proc[1].base_image = <<"a", ":", "a", "/", "a">>
    /\ proc[1].repo_checked = CustomImagesDash
    /\ CustomImagesDash \in repos
    /\ Has(proc[1].log, "create-repository")
    /\ Has(proc[1].log, "push")

\* C10: for a reference <account>.dkr.ecr.<region>.amazonaws.com/<name>:<version>
\* the token is requested with the registry id <account> and the region
\* <region>, and docker login is given <account>.dkr.ecr.<region>.amazonaws.com,
\* the host of the reference that docker pull is given.
C10_SourceRegistryAddressed ==
    \A p \in Procs : \A acct \in Accounts, reg \in KnownRegions, n \in Names, v \in Versions :
        (proc[p].pc \notin BeforeParse \cup {"token", "login", "pull"}
            /\ proc[p].base_image = EcrRef(acct, reg, n, v)) =>
            /\ proc[p].token_request.registry_ids = acct
            /\ proc[p].token_request.region = reg
            /\ proc[p].login_host = RegistryHost(acct, reg)
            /\ proc[p].pull_ref = RegistryHost(acct, reg) \o Slash \o n \o Colon \o v


\* The invocation p has pushed an image made from another base image than its own.
PushedForeign(p) ==
    /\ proc[p].pushed_image # NoImage
    /\ proc[p].pushed_image.from # proc[p].base_image

\* C5: the image a run pushes under its own name is made from another run's
\* base image only when one of its own taggings failed or when the other run
\* moved one of the fixed local tags (base_image, custom_image, the full
\* name) between this run's setting and using it; run one after the other,
\* without failures, each run pushes an image made from its own base image.
C5_ForeignOnlyByInterference ==
    \A p \in Procs :
        PushedForeign(p) => (proc[p].interfered \/ proc[p].stale)

\* C5, witness: two runs with different base images, every tagging and build
\* of both having succeeded, and one run has pushed under its own name, which
\* is not the other's, an image made from the other run's base image.
C5_Witness ==
    \E p \in Procs : \E q \in Procs \ {p} :
        /\ proc[p].pc = "done"
        /\ proc[q].pc = "done"
        /\ ~proc[p].stale
        /\ ~proc[q].stale
        /\ proc[p].base_image # proc[q].base_image
        /\ proc[p].pushed_image = [from |-> proc[q].base_image, layer |-> "custom"]
        /\ proc[p].fullname # proc[q].fullname
        /\ <<proc[p].fullname, proc[p].pushed_image>> \in pushed


(***************************************************************************)
(* Properties of the notebook.                                             *)
(***************************************************************************)
\* <prefix>/<category>/abalone.<category>
KeyOf(prefix, c) == prefix \o Slash \o c \o Slash \o AbaloneDot \o c
FileOf(c) == AbaloneDot \o c
ThreeCategories == {Train, Test, Validation}

\* C3: for each of the categories train, test and validation the copy loop
\* composes the source key <data_prefix>/<c>/abalone.<c>, the destination key
\* <output_prefix>/<c>/abalone.<c> and the file name abalone.<c>; it downloads
\* and uploads each category under those keys, and copies nothing else.
C3_CopyKeys ==
    /\ nb.pc = "upload" =>
          /\ nb.data_key = KeyOf(nb.data_prefix, Categories[nb.i])
          /\ nb.output_key = KeyOf(nb.output_prefix, Categories[nb.i])
          /\ nb.data_filename = FileOf(Categories[nb.i])
    /\ nb.pc # "off" =>
          /\ nb.downloads \subseteq
                {<<data_bucket, KeyOf(nb.data_prefix, c), FileOf(c)>> : c \in ThreeCategories}
          /\ nb.uploads \subseteq
                {<<FileOf(c), output_bucket, KeyOf(nb.output_prefix, c)>> : c \in ThreeCategories}
    /\ nb.pc \in {"retrieve", "write", "invoke", "wait", "fit", "transform", "read", "end"} =>
          /\ nb.downloads =
                {<<data_bucket, KeyOf(nb.data_prefix, c), FileOf(c)>> : c \in ThreeCategories}
          /\ nb.uploads =
                {<<FileOf(c), output_bucket, KeyOf(nb.output_prefix, c)>> : c \in ThreeCategories}

\* C3, witness: the loop has ended with the prefixes of the source, and
\* abalone.validation is among the three uploads.
C3_Witness ==
    /\ nb.pc = "retrieve"
    /\ nb.data_prefix = DataPrefix
    /\ nb.output_prefix = OutputPrefix
    /\ Cardinality(nb.uploads) = 3
    /\ <<AbaloneDot \o Validation, output_bucket,
         OutputPrefix \o Slash \o Validation \o Slash \o AbaloneDot \o Validation>> \in nb.uploads

StepOrder ==
    << <<"copy", Train>>, <<"copy", Test>>, <<"copy", Validation>>, <<"write-handoff">>,
       <<"invoke-script">>, <<"fit">>, <<"transform">>, <<"read">> >>

\* C4: the steps of a run are, in this order and each at most once, the three
\* copies, the writing of the handoff file, the script, the training job (with
\* the fixed hyperparameters and the channels train and validation), the
\* batch transform and the reading of its output; none starts before the one
\* before it has returned.
C4_StepOrder ==
    nb.pc # "off" =>
        /\ Len(nb.steps) <= Len(StepOrder)
        /\ nb.steps = SubSeq(StepOrder, 1, Len(nb.steps))
        /\ proc[1].pc # "idle" => /\ Has(nb.steps, <<"write-handoff">>)
                                  /\ fs = nb.xgboost_container
        /\ proc[2].pc = "idle"
        /\ nb.fit.called =>
              /\ proc[1].pc = "done"
              /\ Has(nb.steps, <<"invoke-script">>)
              /\ nb.fit.hyperparameters =
                    [max_depth |-> "5", eta |-> "0.2", gamma |-> "4", min_child_weight |-> "6",
                     subsample |-> "0.7", objective |-> "reg:squarederror", num_round |-> "50"]
              /\ DOMAIN nb.fit.channels = {"train", "validation"}
        /\ nb.transform # Empty => Has(nb.steps, <<"fit">>)
        /\ nb.df.read => Has(nb.steps, <<"transform">>)

\* C4, witness: a run has gone through all the steps.
C4_Witness ==
    /\ nb.pc = "end"
    /\ nb.steps = StepOrder
    /\ proc[1].pc = "done"

\* the value the frame holds under the column name n
Column(df, n) == df.cols[CHOOSE k \in DOMAIN df.cols : df.cols[k].name = n].value
ShapNames == <<"shap 1", "shap 2", "shap 3", "shap 4", "shap 5", "shap 6", "shap 7", "shap 8">>

\* C8 as stated: the rows are [prediction, base value, 8 attribution values];
\* the read maps column 0 to prediction, column 1 to base_values and the
\* columns that immediately follow to the 8 attribution values, skipping none.
C8_NoColumnSkipped ==
    nb.pc = "end" =>
        /\ Column(nb.df, "prediction") = nb.out[1]
        /\ Column(nb.df, "base_values") = nb.out[2]
        /\ \A k \in 1..8 : Column(nb.df, ShapNames[k]) = nb.out[k + 2]

\* C8 as amended: the read maps column 0 to prediction, column 1 to
\* base_values, skips column 2, and maps the columns 3 to 10 to the 8
\* attribution values; a row of fewer than 11 columns is not read in full.
C8_ThirdColumnSkipped ==
    nb.pc = "end" =>
        /\ Column(nb.df, "prediction") = nb.out[1]
        /\ Column(nb.df, "base_values") = nb.out[2]
        /\ \A k \in 1..8 :
              Column(nb.df, ShapNames[k]) = IF k + 3 <= Len(nb.out) THEN nb.out[k + 3] ELSE NaN
        /\ Len(nb.out) < 11 => Column(nb.df, "shap 8") = NaN

\* C8, witness: a row of 11 columns whose fourth column holds the 1 has been
\* read, and the 1 is under "shap 1".
C8_Witness ==
    /\ nb.pc = "end"
    /\ Len(nb.out) = 11
    /\ nb.out[4] = 1
    /\ Column(nb.df, "shap 1") = 1

\* The script the notebook started has composed its full name, and both
\* resolved the same account and region.
SameIdentity ==
    /\ nb.pc # "off"
    /\ proc[1].pc \in AfterName
    /\ proc[1].account = nb.account
    /\ proc[1].region = nb.region

====
